---- MODULE Spec2Model ----
(***************************************************************************)
(* A state-machine model of the SimCLR samplers of neurocode:              *)
(*   samplers/signal_simclr.py   ContrastiveViewGenerator, SignalSampler   *)
(*   samplers/wavelet_simclr.py  ContrastiveViewGenerator, WaveletSimCLR   *)
(* The sampler object (dataset, labels, configuration), the shared random  *)
(* source and the externally owned encoder are the state; one action per   *)
(* statement group of _extract_features / _extract_embeddings, and one     *)
(* action per whole call of _sample_pair and __getitem__.                  *)
(***************************************************************************)
EXTENDS Integers, Sequences, FiniteSets, TLC

VARIABLES
    kind,      \* "signal" (SignalSampler) or "wavelet" (WaveletSimCLR)
    data,      \* self.data
    labels,    \* self.labels
    info,      \* self.info['lengths'] (wavelet), per-recording window counts
    status,    \* outcome of construction: "accepted" or the error raised
    cfg,       \* the attributes set by _parameters / _setup
    rng,       \* state of the global random source (numpy / torch)
    enc,       \* the encoder: [flag |-> _return_features, training |-> mode]
    pc,        \* per thread: position inside the extraction call
    pre,       \* per thread: the encoder as it was when the call started
    idx,       \* per thread: loop position (flat enumeration index)
    X,         \* per thread: the local list X
    Y,         \* per thread: the local list Y
    visited,   \* per thread: the windows the encoder was invoked on, in order
    cause,     \* per thread: what raised ("" when nothing did)
    overlap,   \* per thread: the running call overlapped another call
    calls,     \* number of calls started so far (bounded)
    out,       \* result of the last _sample_pair / __getitem__ call
    genLog     \* every view-generator invocation made so far

vars == <<kind, data, labels, info, status, cfg, rng, enc, pc, pre, idx, X, Y,
          visited, cause, overlap, calls, out, genLog>>

samplerVars == <<kind, data, labels, info, status, cfg>>
extractVars == <<pc, pre, idx, X, Y, visited, cause, overlap>>

(***************************************************************************)
(* Bounds of the model.                                                    *)
(***************************************************************************)
MaxRecordings == 2
MaxWindows == 2
MaxArity == 2
MaxCalls == 2
MaxBatch == 2
MaxViews == 3
RngMod == 3

(***************************************************************************)
(* Program constants.                                                      *)
(***************************************************************************)
SignalStride == 1
WaveletStride == 25
DefaultViews == 2
DefaultCropPartitions == 5
DefaultPermutationPartitions == 10

Threads == {1, 2}

(***************************************************************************)
(* Python values that end up in Y: a tuple, or a bare element of one.      *)
(***************************************************************************)
PyTuple(items) == [tag |-> "tuple", items |-> items]
PyItem(v) == [tag |-> "item", items |-> <<v>>]

\* The metadata label tuple of recording r (0-based), of the given arity:
\* distinct recordings carry distinct labels.
LabelTuple(r, arity) == PyTuple([i \in 1..arity |-> 10 * r + i])

RECURSIVE SumSeq(_)
SumSeq(s) == IF s = <<>> THEN 0 ELSE Head(s) + SumSeq(Tail(s))

RECURSIVE Concat(_)
Concat(ss) == IF ss = <<>> THEN <<>> ELSE Head(ss) \o Concat(Tail(ss))

\* The windows of a dataset with the given per-recording window counts:
\* recording r holds the windows <<r, 0>> .. <<r, n-1>>.
RawData(lengths) ==
    [r \in 1..Len(lengths) |-> [w \in 1..lengths[r] |-> <<r - 1, w - 1>>]]

RawLabels(lengths, arity) ==
    [r \in 1..Len(lengths) |-> LabelTuple(r - 1, arity)]

(***************************************************************************)
(* WaveletSimCLR._remake_dataset: one scalogram per window, recording by   *)
(* recording, and the recording's label next to each.                      *)
(***************************************************************************)
Scalogram(window) == [cwt |-> window]

remade_data(d) ==
    Concat([r \in 1..Len(d) |-> [w \in 1..Len(d[r]) |-> Scalogram(d[r][w])]])

remade_labels(d, l) ==
    Concat([r \in 1..Len(d) |-> [w \in 1..Len(d[r]) |-> l[r]]])

(***************************************************************************)
(* Construction.  Keyword arguments are a function from the keys that were *)
(* passed to their values.                                                 *)
(***************************************************************************)
Get(kw, key, default) == IF key \in DOMAIN kw THEN kw[key] ELSE default

\* SignalSampler._parameters(n_channels, n_views=2, crop_partitions=5,
\* permutation_partitions=10, **kwargs): n_channels has no default, so a call
\* without it raises TypeError; keys it does not name land in **kwargs.
_parameters(kw) ==
    IF "n_channels" \notin DOMAIN kw
    THEN [err |-> "TypeError", cfg |-> [n_views |-> 0]]
    ELSE [err |-> "",
          cfg |-> [n_channels |-> kw["n_channels"],
                   n_views    |-> Get(kw, "n_views", DefaultViews),
                   transforms |->
                     <<[name |-> "CropResize",
                        n_partitions |-> Get(kw, "crop_partitions",
                                             DefaultCropPartitions)],
                       [name |-> "Permutation",
                        n_partitions |-> Get(kw, "permutation_partitions",
                                             DefaultPermutationPartitions)]>>]]

\* WaveletSimCLR._setup(n_views=2, widths=100, shape=(128, 128), premake=True,
\* transform=False, **kwargs): every parameter has a default.  self.preprocess
\* is ONE transform, the composition of four random image transforms.
_setup(kw) ==
    [err |-> "",
     cfg |-> [n_views    |-> Get(kw, "n_views", DefaultViews),
              transform  |-> Get(kw, "transform", 0) = 1,
              preprocess |-> <<"RandomResizedCrop", "RandomInvert",
                               "RandomHorizontalFlip", "RandomVerticalFlip">>]]

\* What the base sampler keeps of the keyword arguments: the batch size.
base_setup(kw) == [batch_size |-> kw["batch_size"]]

\* The state after SignalSampler(data, labels, info, **kw) or
\* WaveletSimCLR(data, labels, info, **kw) with premake left at its default.
Constructed(k, lengths, arity, kw) ==
    LET made == IF k = "signal"
                THEN [err |-> _parameters(kw).err,
                      cfg |-> _parameters(kw).cfg @@ base_setup(kw)]
                ELSE _setup(kw)
        d0 == RawData(lengths)
        l0 == RawLabels(lengths, arity)
    IN  /\ kind = k
        /\ info = lengths
        /\ data = IF k = "signal" THEN d0 ELSE remade_data(d0)
        /\ labels = IF k = "signal" THEN l0 ELSE remade_labels(d0, l0)
        /\ status = IF made.err = "" THEN "accepted" ELSE made.err
        /\ cfg = made.cfg

(***************************************************************************)
(* The encoder (externally owned).  Invoked with _return_features on it    *)
(* returns the pre-projection features, otherwise the projected output.    *)
(***************************************************************************)
Encode(x, e) == [of |-> x, features |-> e.flag, training |-> e.training]

(***************************************************************************)
(* Feature extraction: SignalSampler._extract_features and                 *)
(* WaveletSimCLR._extract_embeddings, statement group by statement group.  *)
(***************************************************************************)
\* The nested loops of _extract_features: recording by recording, window by
\* window, as 1-based <<recording, window>> positions.
WindowOrder(d) ==
    Concat([r \in 1..Len(d) |-> [w \in 1..Len(d[r]) |-> <<r, w>>]])

\* Number of loop iterations: every window (signal), len(self) (wavelet).
ItemCount == IF kind = "signal" THEN Len(WindowOrder(data)) ELSE Len(data)

\* Iteration i (0-based): the window fed to the encoder, its label, and
\* whether the stride test passes it by.
Item(i) ==
    IF kind = "signal"
    THEN LET p == WindowOrder(data)[i + 1]
         IN  [x     |-> data[p[1]][p[2]],
              label |-> labels[p[1]],
              skip  |-> (p[2] - 1) % SignalStride # 0]
    ELSE [x     |-> data[i + 1],
          label |-> labels[i + 1],
          skip  |-> i % WaveletStride # 0]

\* Y.append(*label): the tuple is unpacked into the arguments of append,
\* which takes exactly one.
StarAppend(list, label) ==
    IF Len(label.items) = 1
    THEN [err |-> "", list |-> Append(list, PyItem(label.items[1]))]
    ELSE [err |-> "TypeError", list |-> list]

\* Y.append(label)
PlainAppend(list, label) == [err |-> "", list |-> Append(list, label)]

AppendLabel(list, label) ==
    IF kind = "signal" THEN StarAppend(list, label) ELSE PlainAppend(list, label)

Active(t) == pc[t] \in {"flag", "loop"}

\* X, Y = [], []; model.eval()
Begin(t) ==
    /\ status = "accepted"
    /\ pc[t] \in {"idle", "returned", "raised"}
    /\ calls < MaxCalls
    /\ calls' = calls + 1
    /\ pre' = [pre EXCEPT ![t] = enc]
    /\ X' = [X EXCEPT ![t] = <<>>]
    /\ Y' = [Y EXCEPT ![t] = <<>>]
    /\ visited' = [visited EXCEPT ![t] = <<>>]
    /\ cause' = [cause EXCEPT ![t] = ""]
    /\ idx' = [idx EXCEPT ![t] = 0]
    /\ enc' = [enc EXCEPT !.training = FALSE]
    /\ pc' = [pc EXCEPT ![t] = "flag"]
    /\ overlap' = [u \in Threads |->
                     IF u = t THEN \E v \in Threads \ {t} : Active(v)
                     ELSE overlap[u] \/ Active(u)]
    /\ UNCHANGED <<samplerVars, rng, out, genLog>>

\* Mutant of SetFeatures: the flag is left as it was found.
SetFeaturesForgotten(t) ==
    /\ pc[t] = "flag"
    /\ pc' = [pc EXCEPT ![t] = "loop"]
    /\ UNCHANGED <<samplerVars, rng, out, genLog, enc, pre, idx, X, Y, visited,
                   cause, overlap, calls>>

\* model._return_features = True
SetFeatures(t) ==
    /\ pc[t] = "flag"
    /\ enc' = [enc EXCEPT !.flag = TRUE]
    /\ pc' = [pc EXCEPT ![t] = "loop"]
    /\ UNCHANGED <<samplerVars, rng, out, genLog, pre, idx, X, Y, visited,
                   cause, overlap, calls>>

\* One iteration of the loop body.  The encoder is external: its invocation
\* may raise.
Iterate(t) ==
    /\ pc[t] = "loop"
    /\ idx[t] < ItemCount
    /\ \E ok \in BOOLEAN :
         LET it == Item(idx[t])
             ya == AppendLabel(Y[t], it.label)
         IN  IF it.skip
             THEN /\ idx' = [idx EXCEPT ![t] = @ + 1]
                  /\ UNCHANGED <<pc, X, Y, visited, cause>>
             ELSE IF ~ok
             THEN /\ visited' = [visited EXCEPT ![t] = Append(@, it.x)]
                  /\ pc' = [pc EXCEPT ![t] = "raised"]
                  /\ cause' = [cause EXCEPT ![t] = "encoder"]
                  /\ UNCHANGED <<idx, X, Y>>
             ELSE /\ visited' = [visited EXCEPT ![t] = Append(@, it.x)]
                  /\ X' = [X EXCEPT ![t] = Append(@, Encode(it.x, enc))]
                  /\ Y' = [Y EXCEPT ![t] = ya.list]
                  /\ IF ya.err = ""
                     THEN /\ idx' = [idx EXCEPT ![t] = @ + 1]
                          /\ UNCHANGED <<pc, cause>>
                     ELSE /\ pc' = [pc EXCEPT ![t] = "raised"]
                          /\ cause' = [cause EXCEPT ![t] = "label"]
                          /\ UNCHANGED idx
    /\ UNCHANGED <<samplerVars, rng, out, genLog, enc, pre, overlap, calls>>

\* X = np.concatenate([...], axis=0), which raises on an empty list;
\* model._return_features = False; return (X, Y)
Finish(t) ==
    /\ pc[t] = "loop"
    /\ idx[t] = ItemCount
    /\ IF X[t] = <<>>
       THEN /\ pc' = [pc EXCEPT ![t] = "raised"]
            /\ cause' = [cause EXCEPT ![t] = "concatenate"]
            /\ UNCHANGED enc
       ELSE /\ pc' = [pc EXCEPT ![t] = "returned"]
            /\ enc' = [enc EXCEPT !.flag = FALSE]
            /\ UNCHANGED cause
    /\ UNCHANGED <<samplerVars, rng, out, genLog, pre, idx, X, Y, visited,
                   overlap, calls>>

Extract(t) == Begin(t) \/ SetFeatures(t) \/ Iterate(t) \/ Finish(t)

(***************************************************************************)
(* The random source.  Every random decision reads the current state and   *)
(* advances it.                                                            *)
(***************************************************************************)
NextRng(s) == (s + 1) % RngMod

\* rng.choice(n): an index below n, decided by the state of the source.
Choice(s, n) == s % n

(***************************************************************************)
(* Tensors.  A tensor carries its shape and, for what it holds, the window *)
(* it was computed from and the transforms applied to it, in order.  A     *)
(* batched tensor holds one such content per index of its leading          *)
(* dimension.                                                              *)
(***************************************************************************)
Channels == 2
Samples == 3
ImageSide == 128

\* self.data[reco_idx][wind_idx][0]: the window as stored, nothing applied.
WindowTensor(x) == [src |-> x, ops |-> <<>>, shape |-> <<Channels, Samples>>]

\* self.data[index] of the remade dataset: the resized scalogram.
ScalogramTensor(x) == [src |-> x, ops |-> <<>>, shape |-> <<1, ImageSide, ImageSide>>]

InsertAt(seq, dim, v) ==
    SubSeq(seq, 1, dim) \o <<v>> \o SubSeq(seq, dim + 1, Len(seq))

\* t.unsqueeze(0) on a single view: a batch of one.
unsqueeze0(view) ==
    [shape |-> InsertAt(view.shape, 0, 1),
     rows  |-> <<[src |-> view.src, ops |-> view.ops]>>]

\* Mutant of unsqueeze: the new dimension goes in front, whatever dim says.
unsqueeze_front(b, dim) == [shape |-> InsertAt(b.shape, 0, 1), rows |-> b.rows]

\* b.unsqueeze(dim) on a batched tensor, dim >= 1: the leading dimension and
\* what it indexes stay.
unsqueeze(b, dim) == [shape |-> InsertAt(b.shape, dim, 1), rows |-> b.rows]

\* torch.cat(list) along dimension 0: raises on an empty list and on tensors
\* whose other dimensions differ.
cat(ts) ==
    IF ts = <<>> THEN [err |-> "RuntimeError", t |-> [shape |-> <<>>, rows |-> <<>>]]
    ELSE IF \E k \in 1..Len(ts) : Tail(ts[k].shape) # Tail(ts[1].shape)
    THEN [err |-> "RuntimeError", t |-> [shape |-> <<>>, rows |-> <<>>]]
    ELSE [err |-> "",
          t |-> [shape |-> <<SumSeq([k \in 1..Len(ts) |-> ts[k].shape[1]])>>
                             \o Tail(ts[1].shape),
                 rows  |-> Concat([k \in 1..Len(ts) |-> ts[k].rows])]]

(***************************************************************************)
(* Transforms.                                                             *)
(***************************************************************************)
\* CropResizeTransform / PermutationTransform applied to a tensor: the shape
\* is kept, the random parameter is drawn from the source.
SignalTransform(T, input, s) ==
    [src   |-> input.src,
     ops   |-> Append(input.ops, [name |-> T.name, param |-> s % T.n_partitions]),
     shape |-> input.shape]

\* One random torchvision transform of the pipeline applied to a tensor.
ImageTransform(name, input, s) ==
    [src   |-> input.src,
     ops   |-> Append(input.ops, [name |-> name, param |-> s]),
     shape |-> input.shape]

\* transforms.Compose(pipeline)(input): each transform is applied to the
\* output of the one before it.
RECURSIVE Compose(_, _, _)
Compose(pipeline, input, s) ==
    IF pipeline = <<>> THEN [t |-> input, rng |-> s]
    ELSE Compose(Tail(pipeline), ImageTransform(Head(pipeline), input, s),
                 NextRng(s))

(***************************************************************************)
(* The two ContrastiveViewGenerator classes.                               *)
(***************************************************************************)
\* signal_simclr: [torch.Tensor(self.transforms[t](x)) for t in range(n_views)]
RECURSIVE SignalViewsFrom(_, _, _, _, _)
SignalViewsFrom(T, n_views, x, t, acc) ==
    IF t >= n_views THEN acc
    ELSE IF t + 1 > Len(T) THEN [acc EXCEPT !.err = "IndexError", !.views = <<>>]
    ELSE SignalViewsFrom(T, n_views, x, t + 1,
             [err   |-> "",
              views |-> Append(acc.views, SignalTransform(T[t + 1], x, acc.rng)),
              rng   |-> NextRng(acc.rng)])

\* Mutant of the signal generator: it remembers the calls made before and
\* serves the transforms in the other order on every second call.
SignalViewGeneratorStateful(T, n_views, x, s) ==
    SignalViewsFrom(IF calls % 2 = 1 THEN [i \in 1..Len(T) |-> T[Len(T) + 1 - i]]
                    ELSE T,
                    n_views, x, 0, [err |-> "", views |-> <<>>, rng |-> s])

SignalViewGenerator(T, n_views, x, s) ==
    SignalViewsFrom(T, n_views, x, 0, [err |-> "", views |-> <<>>, rng |-> s])

\* wavelet_simclr: [self.transforms(x) for _ in range(n_views)], where
\* self.transforms is the composed pipeline self.preprocess.
RECURSIVE WaveletViewsFrom(_, _, _, _, _)
WaveletViewsFrom(pipeline, n_views, x, t, acc) ==
    IF t >= n_views THEN acc
    ELSE LET v == Compose(pipeline, x, acc.rng)
         IN  WaveletViewsFrom(pipeline, n_views, x, t + 1,
                 [err |-> "", views |-> Append(acc.views, v.t), rng |-> v.rng])

\* Mutant of the scalogram generator: x = self.transforms(x) inside the
\* loop, so every view after the first is computed from the view before it.
RECURSIVE WaveletViewsChained(_, _, _, _, _)
WaveletViewsChained(pipeline, n_views, x, t, acc) ==
    IF t >= n_views THEN acc
    ELSE LET v == Compose(pipeline, x, acc.rng)
         IN  WaveletViewsChained(pipeline, n_views, v.t, t + 1,
                 [err |-> "", views |-> Append(acc.views, v.t), rng |-> v.rng])

WaveletViewGeneratorChained(pipeline, n_views, x, s) ==
    WaveletViewsChained(pipeline, n_views, x, 0,
                        [err |-> "", views |-> <<>>, rng |-> s])

WaveletViewGenerator(pipeline, n_views, x, s) ==
    WaveletViewsFrom(pipeline, n_views, x, 0, [err |-> "", views |-> <<>>, rng |-> s])

\* What the log keeps of one generator invocation.
Invocation(x, s, res, k) ==
    [x |-> x, rng |-> s, n_views |-> cfg.n_views, err |-> res.err,
     views |-> res.views, at |-> <<calls + 1, k>>]

(***************************************************************************)
(* The sampling primitives of the base sampler.                            *)
(***************************************************************************)
\* A recording index, uniformly among the recordings that have a window;
\* an error if there is none.
_sample_recording(s) ==
    LET eligible == {r \in 1..Len(data) : Len(data[r]) >= 1}
        order == [k \in 1..Cardinality(eligible) |->
                    CHOOSE r \in eligible :
                        Cardinality({q \in eligible : q < r}) = k - 1]
    IN  IF eligible = {}
        THEN [err |-> "NoRecording", value |-> 0, rng |-> s]
        ELSE [err |-> "", value |-> order[Choice(s, Len(order)) + 1] - 1,
              rng |-> NextRng(s)]

\* A window index, uniformly within the recording.
_sample_window(recording_idx, s) ==
    [err |-> "", value |-> Choice(s, Len(data[recording_idx + 1])),
     rng |-> NextRng(s)]

(***************************************************************************)
(* SignalSampler._sample_pair.                                             *)
(***************************************************************************)
\* The loop body, iterations k .. batch_size.  acc holds batch_anchors,
\* batch_samples, the random source, the windows drawn so far and the
\* generator invocations made.
RECURSIVE PairLoop(_, _)
PairLoop(k, acc) ==
    IF k > cfg.batch_size \/ acc.err # "" THEN acc
    ELSE
      LET reco == _sample_recording(acc.rng)
          wind == _sample_window(reco.value, reco.rng)
          x    == WindowTensor(data[reco.value + 1][wind.value + 1])
          gen  == SignalViewGenerator(cfg.transforms, cfg.n_views, x, wind.rng)
          log  == acc.log \cup {Invocation(x, wind.rng, gen, k)}
      IN  IF reco.err # "" THEN [acc EXCEPT !.err = reco.err]
          ELSE IF gen.err # ""
          THEN [acc EXCEPT !.err = gen.err, !.rng = gen.rng, !.log = log]
          ELSE IF Len(gen.views) # 2     \* T1, T2 = self.transformer(x)
          THEN [acc EXCEPT !.err = "ValueError", !.rng = gen.rng, !.log = log]
          ELSE PairLoop(k + 1,
                   [err     |-> "",
                    anchors |-> Append(acc.anchors, unsqueeze0(gen.views[1])),
                    samples |-> Append(acc.samples, unsqueeze0(gen.views[2])),
                    drawn   |-> Append(acc.drawn,
                                       <<reco.value, wind.value>>),
                    rng     |-> gen.rng,
                    log     |-> log])

\* Mutant of _sample_pair: SAMPLES is built from batch_anchors too.
_sample_pair_copied ==
    LET loop == PairLoop(1, [err |-> "", anchors |-> <<>>, samples |-> <<>>,
                             drawn |-> <<>>, rng |-> rng, log |-> {}])
        A == cat(loop.anchors)
        S == cat(loop.anchors)
        err == IF loop.err # "" THEN loop.err
               ELSE IF A.err # "" THEN A.err ELSE S.err
    IN  [op     |-> "pair",
         err    |-> err,
         result |-> IF err = "" THEN <<unsqueeze(A.t, 1), unsqueeze(S.t, 1)>>
                    ELSE <<>>,
         drawn  |-> loop.drawn,
         rng    |-> loop.rng,
         log    |-> loop.log]

\* The whole call: the loop, then the two cat(...).unsqueeze(1), then the
\* returned tuple (ANCHORS, SAMPLES).
_sample_pair ==
    LET loop == PairLoop(1, [err |-> "", anchors |-> <<>>, samples |-> <<>>,
                             drawn |-> <<>>, rng |-> rng, log |-> {}])
        A == cat(loop.anchors)
        S == cat(loop.samples)
        err == IF loop.err # "" THEN loop.err
               ELSE IF A.err # "" THEN A.err ELSE S.err
    IN  [op     |-> "pair",
         err    |-> err,
         result |-> IF err = "" THEN <<unsqueeze(A.t, 1), unsqueeze(S.t, 1)>>
                    ELSE <<>>,
         drawn  |-> loop.drawn,
         rng    |-> loop.rng,
         log    |-> loop.log]

\* Mutant of SamplePair: the transforms work in place, so the first window
\* drawn is overwritten in the dataset.
SamplePairInPlace ==
    /\ kind = "signal"
    /\ status = "accepted"
    /\ \A t \in Threads : ~Active(t)
    /\ calls < MaxCalls
    /\ LET r == _sample_pair
       IN  /\ out' = [op |-> r.op, err |-> r.err, result |-> r.result,
                      drawn |-> r.drawn]
           /\ rng' = r.rng
           /\ genLog' = genLog \cup r.log
           /\ data' = IF r.drawn = <<>> THEN data
                      ELSE [data EXCEPT
                              ![r.drawn[1][1] + 1][r.drawn[1][2] + 1] =
                                  <<-1, -1>>]
    /\ calls' = calls + 1
    /\ UNCHANGED <<kind, labels, info, status, cfg, enc, extractVars>>

SamplePair ==
    /\ kind = "signal"
    /\ status = "accepted"
    /\ \A t \in Threads : ~Active(t)
    /\ calls < MaxCalls
    /\ LET r == _sample_pair
       IN  /\ out' = [op |-> r.op, err |-> r.err, result |-> r.result,
                      drawn |-> r.drawn]
           /\ rng' = r.rng
           /\ genLog' = genLog \cup r.log
    /\ calls' = calls + 1
    /\ UNCHANGED <<samplerVars, enc, extractVars>>

(***************************************************************************)
(* WaveletSimCLR.__getitem__.                                              *)
(***************************************************************************)
__getitem__(index) ==
    IF index >= Len(data)
    THEN [op |-> "item", err |-> "IndexError", result |-> <<>>, rng |-> rng,
          log |-> {}]
    ELSE IF cfg.transform
    THEN LET x == ScalogramTensor(data[index + 1])
             gen == WaveletViewGenerator(cfg.preprocess, cfg.n_views, x, rng)
         IN  [op |-> "item", err |-> gen.err, result |-> gen.views,
              rng |-> gen.rng, log |-> {Invocation(x, rng, gen, 1)}]
    ELSE [op |-> "item", err |-> "",
          result |-> <<data[index + 1], labels[index + 1]>>, rng |-> rng,
          log |-> {}]

GetItem(index) ==
    /\ kind = "wavelet"
    /\ status = "accepted"
    /\ \A t \in Threads : ~Active(t)
    /\ calls < MaxCalls
    /\ LET r == __getitem__(index)
       IN  /\ out' = [op |-> r.op, err |-> r.err, result |-> r.result,
                      index |-> index]
           /\ rng' = r.rng
           /\ genLog' = genLog \cup r.log
    /\ calls' = calls + 1
    /\ UNCHANGED <<samplerVars, enc, extractVars>>

(***************************************************************************)
(* Inputs.                                                                 *)
(***************************************************************************)
Kinds == {"signal", "wavelet"}

\* Window counts of a recording: the small ones, and the ones around the
\* stride of _extract_embeddings.
WindowCounts == (0..MaxWindows) \cup {WaveletStride, WaveletStride + 1}

Datasets == UNION {[1..n -> WindowCounts] : n \in 0..MaxRecordings}

SmallDatasets == UNION {[1..n -> 0..MaxWindows] : n \in 0..MaxRecordings}

\* One recording of up to MaxWindows windows: how two concurrent calls
\* interleave depends only on how many iterations each makes.
SingleRecordings == {<<n>> : n \in 0..MaxWindows}

Encoders == [flag : BOOLEAN, training : BOOLEAN]

DefaultKwargs == [k \in {"n_channels", "batch_size"} |-> 1]

NoOut == [op |-> "none"]

ExtractIdle ==
    /\ pc = [t \in Threads |-> "idle"]
    /\ pre = [t \in Threads |-> enc]
    /\ idx = [t \in Threads |-> 0]
    /\ X = [t \in Threads |-> <<>>]
    /\ Y = [t \in Threads |-> <<>>]
    /\ visited = [t \in Threads |-> <<>>]
    /\ cause = [t \in Threads |-> ""]
    /\ overlap = [t \in Threads |-> FALSE]

(***************************************************************************)
(* SpecExtract: one caller at a time runs extraction calls on a sampler.   *)
(***************************************************************************)
InitExtract ==
    /\ \E k \in Kinds, lengths \in Datasets, arity \in 1..MaxArity :
         Constructed(k, lengths, arity, DefaultKwargs)
    /\ enc \in Encoders
    /\ rng = 0
    /\ calls = 0
    /\ out = NoOut
    /\ genLog = {}
    /\ ExtractIdle

NextExtract == Extract(1)

SpecExtract == InitExtract /\ [][NextExtract]_vars

(***************************************************************************)
(* SpecConcurrent: two callers run extraction calls against the same       *)
(* sampler and the same encoder, interleaved statement group by statement  *)
(* group.                                                                  *)
(***************************************************************************)
InitConcurrent ==
    /\ \E k \in Kinds, lengths \in SingleRecordings :
         Constructed(k, lengths, 1, DefaultKwargs)
    /\ enc \in Encoders
    /\ rng = 0
    /\ calls = 0
    /\ out = NoOut
    /\ genLog = {}
    /\ ExtractIdle

NextConcurrent == \E t \in Threads : Extract(t)

SpecConcurrent == InitConcurrent /\ [][NextConcurrent]_vars

(***************************************************************************)
(* Claims about feature extraction.                                        *)
(***************************************************************************)
Ended(t) == pc[t] \in {"returned", "raised"}

\* The label the dataset holds for the window x that was fed to the encoder.
LabelOfSource(x) ==
    IF kind = "signal" THEN labels[x[1] + 1]
    ELSE labels[CHOOSE i \in 1..Len(data) : data[i] = x]

\* The windows an extraction call is to visit, in order: every window,
\* recording by recording (signal); the flat indices 0, 25, 50, ... (wavelet).
ExpectedVisits ==
    IF kind = "signal" THEN Concat(data)
    ELSE [k \in 1..((Len(data) + WaveletStride - 1) \div WaveletStride) |->
            data[(k - 1) * WaveletStride + 1]]

\* C1: when an extraction call raises after it switched the encoder to
\* features-only mode, the encoder's _return_features flag is back to the
\* value it had before the call.
C1_FlagRestoredOnRaise ==
    \A t \in Threads : pc[t] = "raised" => enc.flag = pre[t].flag

\* C2: after an extraction call returns normally, the encoder's
\* _return_features flag and its training/inference mode both have the
\* values they had immediately before the call.
C2_EncoderRestoredOnReturn ==
    \A t \in Threads :
        pc[t] = "returned" =>
            /\ enc.flag = pre[t].flag
            /\ enc.training = pre[t].training

\* C3: whenever extraction returns, X and Y have the same length and Y[k] is
\* the metadata label (the label tuple, whatever its arity) of the window
\* that produced X[k].
C3_LabelsAligned ==
    \A t \in Threads :
        pc[t] = "returned" =>
            /\ Len(X[t]) = Len(Y[t])
            /\ \A k \in 1..Len(X[t]) : Y[t][k] = LabelOfSource(X[t][k].of)

\* C10: an extraction call that ends without the encoder failing has invoked
\* the encoder exactly once on each window of the fixed visiting order: all
\* windows recording by recording (signal), the flat indices divisible by 25
\* (wavelet), so that the records number sum(lengths), resp. ceil(N / 25).
C10_VisitsEveryWindow ==
    \A t \in Threads :
        (Ended(t) /\ cause[t] # "encoder") => visited[t] = ExpectedVisits

\* C7: an encoder invocation made by an extraction call that no other call
\* overlapped sees the features-only flag on: only calls that ran
\* concurrently with another one can collect post-projection outputs.
C7_SerializedSeesFlag ==
    \A t \in Threads :
        ~overlap[t] => \A k \in 1..Len(X[t]) : X[t][k].features

\* C7 (witness): the unsafe interleaving.  One call has returned and reset
\* the flag while the other, still iterating, has invoked the encoder with
\* the flag off.
C7_UnsafeInterleaving ==
    \E t \in Threads, u \in Threads :
        /\ t # u
        /\ pc[u] = "returned"
        /\ pc[t] = "loop"
        /\ overlap[t]
        /\ \E k \in 1..Len(X[t]) : ~X[t][k].features

(***************************************************************************)
(* SpecSample: a sampler is constructed from keyword arguments and then    *)
(* asked, one call after the other, for batches (signal), items (wavelet)  *)
(* and extracted features.                                                 *)
(***************************************************************************)
\* Keyword arguments: any subset of the keys, each with a small value.
\* "verbose" is a key no sampler recognizes.
KwargsOver(keys, required) ==
    UNION {[K \cup required -> 0..MaxViews] : K \in SUBSET keys}

SignalKwargs ==
    {kw \in KwargsOver({"n_channels", "n_views", "verbose"}, {"batch_size"}) :
        /\ kw["batch_size"] <= MaxBatch
        /\ "n_channels" \in DOMAIN kw => kw["n_channels"] = Channels
        /\ "verbose" \in DOMAIN kw => kw["verbose"] = 1}

WaveletKwargs ==
    {kw \in KwargsOver({"n_views", "transform", "verbose"}, {}) :
        /\ "transform" \in DOMAIN kw => kw["transform"] <= 1
        /\ "verbose" \in DOMAIN kw => kw["verbose"] = 1}

\* The indices asked of __getitem__: the first, the last, and the first one
\* out of range.
Indices == {0, Len(data) - 1, Len(data)} \ {-1}

InitSample ==
    /\ \E k \in Kinds, lengths \in SmallDatasets :
         \E kw \in (IF k = "signal" THEN SignalKwargs ELSE WaveletKwargs) :
             Constructed(k, lengths, 1, kw)
    /\ enc = [flag |-> FALSE, training |-> TRUE]
    /\ rng \in 0..(RngMod - 1)
    /\ calls = 0
    /\ out = NoOut
    /\ genLog = {}
    /\ ExtractIdle

NextSample ==
    \/ SamplePair
    \/ \E index \in Indices : GetItem(index)
    \/ Extract(1)

SpecSample == InitSample /\ [][NextSample]_vars

(***************************************************************************)
(* Claims about batch sampling and view generation.                        *)
(***************************************************************************)
Returned(op) == out.op = op /\ out.err = ""

\* C4: every batch _sample_pair returns is two tensors whose leading
\* dimension is batch_size and whose second dimension is the singleton view
\* slot; batch_size windows were drawn, one anchor and one sample each.
C4_BatchShape ==
    Returned("pair") =>
        /\ Len(out.drawn) = cfg.batch_size
        /\ \A j \in 1..Len(out.result) :
             /\ out.result[j].shape[1] = cfg.batch_size
             /\ out.result[j].shape[2] = 1
             /\ Len(out.result[j].rows) = cfg.batch_size

\* C4 (witness): a batch of more than one window returned by a call that
\* was not the first.
C4_LaterBatchReturned ==
    /\ Returned("pair")
    /\ cfg.batch_size > 1
    /\ calls > 1

\* C5 (as claimed): a generator invocation returns exactly n_views views,
\* each of them ONE configured transform applied to the unmodified source,
\* never configured transforms composed with each other, for the signal
\* generator and for the scalogram generator.
C5_OneTransformPerView ==
    \A e \in genLog :
        e.err = "" =>
            /\ Len(e.views) = e.n_views
            /\ \A v \in 1..Len(e.views) :
                 /\ e.views[v].src = e.x.src
                 /\ Len(e.views[v].ops) = 1

\* The names of the transforms applied, in order.
OpNames(view) == [i \in 1..Len(view.ops) |-> view.ops[i].name]

\* C5 (amended): a signal generator invocation with n_views within the
\* number of configured transforms returns n_views views, view t being
\* configured transform t alone applied to the unmodified source, and with a
\* larger n_views it raises IndexError; a scalogram generator invocation
\* returns n_views views for every n_views, each the whole configured
\* pipeline, its transforms composed in their configured order, applied to
\* the unmodified source.  No view is computed from another view.
C5_ViewsFromSource ==
    \A e \in genLog :
        IF kind = "signal"
        THEN IF e.n_views <= Len(cfg.transforms)
             THEN /\ e.err = ""
                  /\ Len(e.views) = e.n_views
                  /\ \A v \in 1..Len(e.views) :
                       /\ e.views[v].src = e.x.src
                       /\ OpNames(e.views[v]) = <<cfg.transforms[v].name>>
             ELSE e.err = "IndexError"
        ELSE /\ e.err = ""
             /\ Len(e.views) = e.n_views
             /\ \A v \in 1..Len(e.views) :
                  /\ e.views[v].src = e.x.src
                  /\ OpNames(e.views[v]) = cfg.preprocess

\* C5 (witness): the scalogram generator has returned more than one view.
C5_ScalogramViewsMade ==
    /\ kind = "wavelet"
    /\ \E e \in genLog : e.err = "" /\ Len(e.views) > 1

\* C6: no sampler whose configuration was accepted fails inside batch
\* sampling because of its n_views: a value the sampler cannot serve was
\* rejected when the sampler was configured.
C6_NoLateConfigurationError ==
    ~(out.op = "pair" /\ out.err \in {"IndexError", "ValueError"})

C9_PairsShareSource ==
    Returned("pair") =>
        /\ Len(out.result) = 2
        /\ \A k \in 1..Len(out.drawn) :
             LET x == data[out.drawn[k][1] + 1][out.drawn[k][2] + 1]
                 anchor == out.result[1].rows[k]
                 sample == out.result[2].rows[k]
             IN  /\ anchor.src = x
                 /\ sample.src = x
                 /\ OpNames(anchor) = <<cfg.transforms[1].name>>
                 /\ OpNames(sample) = <<cfg.transforms[2].name>>

\* C9 (witness): a returned batch whose positions hold different windows.
C9_BatchOfDistinctWindows ==
    /\ Returned("pair")
    /\ \E j \in 1..Len(out.drawn), k \in 1..Len(out.drawn) :
         out.drawn[j] # out.drawn[k]

(***************************************************************************)
(* SpecRemake: WaveletSimCLR(data, labels, info, **kw) seen from the       *)
(* inside.  __init__ has stored data, labels and info; _setup then sets    *)
(* the configuration and, premake being left at its default, rebuilds the  *)
(* dataset.  info['lengths'] comes from the loader and need not agree with *)
(* the data it describes.  One item access follows a construction.         *)
(***************************************************************************)
\* What _remake_dataset would leave behind if it stored the rebuilt lists
\* before asserting their length.
_remake_dataset_storing_first ==
    LET rebuilt_data == remade_data(data)
        rebuilt_labels == remade_labels(data, labels)
    IN  [err    |-> IF Len(rebuilt_data) = SumSeq(info)
                    THEN "" ELSE "AssertionError",
         data   |-> rebuilt_data,
         labels |-> rebuilt_labels]

\* WaveletSimCLR._remake_dataset: the two lists are rebuilt in locals, the
\* length is asserted against sum(info['lengths'].values()), and only then
\* are they stored.
_remake_dataset ==
    LET rebuilt_data == remade_data(data)
        rebuilt_labels == remade_labels(data, labels)
    IN  IF Len(rebuilt_data) # SumSeq(info)
        THEN [err |-> "AssertionError", data |-> data, labels |-> labels]
        ELSE [err |-> "", data |-> rebuilt_data, labels |-> rebuilt_labels]

\* WaveletSimCLR.__len__.
__len__ == Len(data)

\* The whole of _setup(**kw), its call of _remake_dataset included; an
\* AssertionError leaves through __init__, nothing catches it.
Setup(kw) ==
    /\ kind = "wavelet"
    /\ status = "constructing"
    /\ LET r == _remake_dataset
       IN  /\ data' = r.data
           /\ labels' = r.labels
           /\ status' = IF r.err = "" THEN "accepted" ELSE r.err
           /\ out' = [op |-> "_remake_dataset", err |-> r.err,
                      before |-> [data |-> data, labels |-> labels]]
    /\ cfg' = _setup(kw).cfg
    /\ UNCHANGED <<kind, info, rng, enc, extractVars, calls, genLog>>

\* The keyword arguments of the constructions: transform passed or not.
RemakeKwargs == {kw \in WaveletKwargs : DOMAIN kw \subseteq {"transform"}}

NoCfg == [n_views |-> 0]

InitRemake ==
    /\ kind = "wavelet"
    /\ \E lengths \in SmallDatasets, arity \in 1..MaxArity :
         /\ data = RawData(lengths)
         /\ labels = RawLabels(lengths, arity)
         /\ info \in [1..Len(lengths) -> 0..MaxWindows]
    /\ status = "constructing"
    /\ cfg = NoCfg
    /\ enc = [flag |-> FALSE, training |-> TRUE]
    /\ rng = 0
    /\ calls = MaxCalls - 1
    /\ out = NoOut
    /\ genLog = {}
    /\ ExtractIdle

NextRemake ==
    \/ \E kw \in RemakeKwargs : Setup(kw)
    \/ \E index \in Indices : GetItem(index)

SpecRemake == InitRemake /\ [][NextRemake]_vars

(***************************************************************************)
(* Claims about the rebuilt dataset.                                       *)
(***************************************************************************)
Remade == out.op = "_remake_dataset"

\* The recording (0-based) the k-th rebuilt window came from.
RecordingOf(k) == data[k].cwt[1]

\* C11: _remake_dataset either stores two flat lists of equal length, that
\* length being the sum of the per-recording lengths in info, the k-th
\* window being the k-th window of the recordings taken in order and the
\* k-th label the label of the recording that window came from; or it fails
\* with an AssertionError because the rebuilt length differs from that sum,
\* and then data and labels are exactly what they were before the call, the
\* construction has failed for good and no second attempt is made.
C11_RemakeOrAssert ==
    Remade =>
        IF out.err = ""
        THEN /\ status = "accepted"
             /\ __len__ = SumSeq(info)
             /\ Len(labels) = __len__
             /\ [k \in 1..__len__ |-> data[k].cwt] = Concat(out.before.data)
             /\ \A k \in 1..__len__ :
                  labels[k] = out.before.labels[RecordingOf(k) + 1]
        ELSE /\ out.err = "AssertionError"
             /\ status = "AssertionError"
             /\ Len(Concat(out.before.data)) # SumSeq(info)
             /\ data = out.before.data
             /\ labels = out.before.labels
             /\ ~ENABLED NextRemake

\* C11 (witness): a construction that failed its assertion over a dataset of
\* two recordings with windows in them.
C11_AssertionFailedOnWindows ==
    /\ Remade
    /\ out.err = "AssertionError"
    /\ Len(out.before.data) = 2
    /\ \A r \in 1..2 : Len(out.before.data[r]) > 0

(***************************************************************************)
(* Claims about what a call may change (SpecSample).                       *)
(***************************************************************************)
\* C12: once a sampler is constructed, every step of a batch-sampling, an
\* item-access or a feature-extraction call leaves its dataset, its labels,
\* its info and its configuration (batch size, n_views, transforms) as they
\* were; the encoder changes only in steps of an extraction call, so all a
\* sampling or item call changes outside its result is the random source.
C12_CallsLeaveSamplerAlone ==
    [][/\ data' = data
       /\ labels' = labels
       /\ info' = info
       /\ cfg' = cfg
       /\ kind' = kind
       /\ status' = status
       /\ enc' # enc => pc' # pc]_vars

\* C12 (witness): a sampler that has served MaxCalls calls, an extraction
\* that ran to its end and a sampling or item call that returned, the random
\* source having moved.
C12_ServedMixedCalls ==
    /\ calls = MaxCalls
    /\ Ended(1)
    /\ out.op # "none"
    /\ out.err = ""
    /\ genLog # {}

====
